---- MODULE Spec2Model ----
(***************************************************************************)
(* Model of qiskit/aqua/components/optimizers/l_bfgs_b.py: the L_BFGS_B    *)
(* adapter around scipy.optimize.fmin_l_bfgs_b.                            *)
(*                                                                         *)
(* One adapter instance is modelled.  Its state is the option dictionary   *)
(* stored by the constructor, the batch-mode flag of the Optimizer base    *)
(* class, and a record of the last optimize call: the request, the         *)
(* arguments the solver was invoked with, what the solver did, and what    *)
(* optimize handed back to the caller.                                     *)
(*                                                                         *)
(* Python values are records [py, num, den]: py is the Python type and     *)
(* num/den the rational value, so 1e-08 is 1/100000000 and 10.5 is 21/2.   *)
(***************************************************************************)
EXTENDS Integers, Sequences, FiniteSets, TLC

VARIABLES phase, ctorArgs, _options, constructed_options, _batch_mode,
          request, solverCalls, solverArgs, solverOut, outcome, evals, memo,
          repeat

vars == <<phase, ctorArgs, _options, constructed_options, _batch_mode,
          request, solverCalls, solverArgs, solverOut, outcome, evals, memo,
          repeat>>

\* ------------------------------------------------------------ bounds ----
MaxKwargs == 1
MaxFuncalls == 2

\* ----------------------------------------------------- Python values ----
PyInt(n) == [py |-> "int", num |-> n, den |-> 1]
PyFloat(n, d) == [py |-> "float", num |-> n, den |-> d]
PyStr == [py |-> "str", num |-> 0, den |-> 1]
PyObject == [py |-> "object", num |-> 0, den |-> 1]

\* An optional sequence: Python None, or a list.
PyNone == [isNone |-> TRUE, val |-> <<>>]
PyList(s) == [isNone |-> FALSE, val |-> s]

\* -------------------------------------------------- CONFIGURATION -------
\* CONFIGURATION['options']
OptionNames == {"maxfun", "maxiter", "factr", "iprint", "epsilon"}

\* CONFIGURATION['input_schema']['properties'][k]['type']
SchemaType(k) ==
    CASE k = "maxfun" -> "integer"
      [] k = "maxiter" -> "integer"
      [] k = "factr" -> "integer"
      [] k = "iprint" -> "integer"
      [] k = "epsilon" -> "number"

\* Defaults of the signature of __init__.
SignatureDefault(k) ==
    CASE k = "maxfun" -> PyInt(1000)
      [] k = "maxiter" -> PyInt(15000)
      [] k = "factr" -> PyInt(10)
      [] k = "iprint" -> PyInt(-1)
      [] k = "epsilon" -> PyFloat(1, 100000000)

\* The dictionary before anything is stored in it.
NoOptions == [k \in {} |-> PyObject]

\* ----------------------------------------------------- construction -----
\* Keyword names a caller may pass: the five declared ones and one that
\* the signature does not declare.
KeywordNames == OptionNames \cup {"maxcor"}

\* Values a caller may pass: an integer, a non-integer number, a string.
CtorValues == {PyInt(5), PyFloat(21, 2), PyStr}

\* Binding of keyword arguments to the parameters of __init__: a keyword
\* the signature does not name is a TypeError raised before the body runs.
BindsToSignature(kwargs) == DOMAIN kwargs \subseteq OptionNames

\* locals() in the body of __init__: self, the five parameters (given or
\* default) and the __class__ cell that the use of super() creates.
Locals(kwargs) ==
    [k \in OptionNames \cup {"self", "__class__"} |->
        IF k \in OptionNames
        THEN (IF k \in DOMAIN kwargs THEN kwargs[k] ELSE SignatureDefault(k))
        ELSE PyObject]

\* JSON-schema type test of one value.
IsOfSchemaType(v, t) ==
    CASE t = "integer" -> v.py = "int"
      [] t = "number" -> v.py \in {"int", "float"}

\* Optimizer.validate(args_dict): every declared property present in the
\* dictionary is checked against its declared type.
validate(args_dict) ==
    \A k \in OptionNames \cap DOMAIN args_dict :
        IsOfSchemaType(args_dict[k], SchemaType(k))

\* Variant: the loop stores every entry of locals().
StoredOptions_unfiltered(locs) == [k \in DOMAIN locs |-> locs[k]]

\* The loop of __init__ that fills self._options from locals().
StoredOptions(locs) ==
    [k \in {n \in DOMAIN locs : n \in OptionNames} |-> locs[k]]

\* Variant: the options are stored before validation has its say.
ProceedsToStore_always(valid) == TRUE

\* Whether the body of __init__ goes on to store the options.
ProceedsToStore(valid) == valid

\* ---------------------------------------------------------- optimize ----
Objectives == {"f"}
Gradients == {"None", "df"}
Dimensions == {1, 2}

Zeros(n) == [i \in 1..n |-> 0]
Ones(n) == [i \in 1..n |-> 1]
UnitBounds(n) == [i \in 1..n |-> <<0, 1>>]

InitialPoints == {PyNone, PyList(Zeros(2))}
VariableBounds == {PyNone, PyList(UnitBounds(1)), PyList(UnitBounds(2))}

\* A gradient as the solver sees it: none, the caller's function, or
\* Optimizer.wrap_function(Optimizer.gradient_num_diff, (objective, epsilon)).
NoGradient == [kind |-> "none", name |-> "None", obj |-> "None", eps |-> PyObject]
UserGradient(g) == [kind |-> "user", name |-> g, obj |-> "None", eps |-> PyObject]
wrap_function(fn, obj, eps) == [kind |-> "wrapped", name |-> fn, obj |-> obj, eps |-> eps]

AsGradient(g) == IF g = "None" THEN NoGradient ELSE UserGradient(g)

\* Optimizer.optimize: the request-shape validation of the base class.
BaseOptimize(req) ==
    IF req.initial_point.isNone THEN "ValueError"
    ELSE IF Len(req.initial_point.val) # req.num_vars THEN "ValueError"
    ELSE IF ~req.variable_bounds.isNone
            /\ Len(req.variable_bounds.val) # req.num_vars THEN "ValueError"
    ELSE "ok"

\* Variant: the failure of the base validation is swallowed.
ReachesSolver_always(check) == TRUE

\* An exception raised by super().optimize leaves optimize at once.
ReachesSolver(check) == check = "ok"

\* Variant: a missing gradient is wrapped whether or not batch mode is on.
GradientForSolver_always_wraps(gradient_function, objective_function, batch, opts) ==
    IF gradient_function = "None"
    THEN wrap_function("gradient_num_diff", objective_function, opts["epsilon"])
    ELSE AsGradient(gradient_function)

\* Variant: the wrapper is bound to the default step, not the configured one.
GradientForSolver_default_epsilon(gradient_function, objective_function, batch, opts) ==
    IF gradient_function = "None" /\ batch
    THEN wrap_function("gradient_num_diff", objective_function,
                       SignatureDefault("epsilon"))
    ELSE AsGradient(gradient_function)

\* Variant: batch mode alone decides, so a supplied gradient is replaced.
GradientForSolver_batch_only(gradient_function, objective_function, batch, opts) ==
    IF batch
    THEN wrap_function("gradient_num_diff", objective_function, opts["epsilon"])
    ELSE AsGradient(gradient_function)

\* if gradient_function is None and self._batch_mode: ... wrap
GradientForSolver(gradient_function, objective_function, batch, opts) ==
    IF gradient_function = "None" /\ batch
    THEN wrap_function("gradient_num_diff", objective_function, opts["epsilon"])
    ELSE AsGradient(gradient_function)

\* approx_grad = True if gradient_function is None else False
ApproxGrad(fprime) == fprime.kind = "none"

\* **self._options
SolverKwargs(opts) == opts

\* Variant: optimize files the flag it computed in the option dictionary.
OptionsAfterOptimize_keeps_flag(opts) ==
    [k \in DOMAIN opts \cup {"approx_grad"} |->
        IF k = "approx_grad" THEN PyObject ELSE opts[k]]

\* self._options after optimize: the body never assigns to it.
OptionsAfterOptimize(opts) == opts

NoArgs == [func |-> "None", x0 |-> PyNone, bounds |-> PyNone,
           fprime |-> NoGradient, approx_grad |-> FALSE, opts |-> NoOptions]

NoOut == [kind |-> "none", err |-> "None", sol |-> <<>>, opt |-> 0,
          funcalls |-> 0, gradcalls |-> 0]

\* What fmin_l_bfgs_b may do with its arguments: raise, or return a point,
\* a value and info['funcalls'], having called func funcalls times (its own
\* finite differences included).  A given fprime is called at every point
\* func is called at, so as many times.
SolverOutcomes(args) ==
    {[kind |-> "raise", err |-> "SolverError", sol |-> <<>>, opt |-> 0,
      funcalls |-> 0, gradcalls |-> 0]}
    \cup
    {[kind |-> "return", err |-> "None", sol |-> Ones(Len(args.x0.val)),
      opt |-> 3, funcalls |-> nf,
      gradcalls |-> IF args.fprime.kind = "none" THEN 0 ELSE nf] :
        nf \in 1..MaxFuncalls}

\* Objective evaluations of one call of Optimizer.gradient_num_diff: the
\* centre point and one perturbed point per variable.
NumDiffEvals(n) == n + 1

\* Objective evaluations performed during one solver run.
ObjectiveEvals(args, out) ==
    out.funcalls
    + (IF args.fprime.kind = "wrapped"
       THEN out.gradcalls * NumDiffEvals(Len(args.x0.val))
       ELSE 0)

NoOutcome == [kind |-> "none", err |-> "None", value |-> <<>>]
Raised(e) == [kind |-> "raise", err |-> e, value |-> <<>>]

\* Variant: the value and the count change places in the returned tuple.
OptimizeOutcome_swapped(out) ==
    IF out.kind = "raise"
    THEN Raised(out.err)
    ELSE [kind |-> "return", err |-> "None",
          value |-> <<out.sol, out.funcalls, out.opt>>]

\* sol, opt, info = fmin_l_bfgs_b(...); return sol, opt, info['funcalls']
OptimizeOutcome(out) ==
    IF out.kind = "raise"
    THEN Raised(out.err)
    ELSE [kind |-> "return", err |-> "None",
          value |-> <<out.sol, out.opt, out.funcalls>>]

NoRequest == [num_vars |-> 0, objective_function |-> "None",
              gradient_function |-> "None", variable_bounds |-> PyNone,
              initial_point |-> PyNone, batch |-> FALSE]

NoMemo == [set |-> FALSE, args |-> NoArgs, out |-> NoOut,
           request |-> NoRequest, outcome |-> NoOutcome]

\* ------------------------------------------------------------- state ----
Init ==
    /\ phase = "new"
    /\ ctorArgs = NoOptions
    /\ _options = NoOptions
    /\ constructed_options = NoOptions
    /\ _batch_mode = FALSE
    /\ request = NoRequest
    /\ solverCalls = 0
    /\ solverArgs = NoArgs
    /\ solverOut = NoOut
    /\ outcome = NoOutcome
    /\ evals = 0
    /\ memo = NoMemo
    /\ repeat = FALSE

\* L_BFGS_B(**kwargs): bind the keywords, validate locals(), run the base
\* constructor, store the declared options.  A raise at any step leaves
\* the construction failed.
__init__(kwargs) ==
    /\ phase = "new"
    /\ ctorArgs' = kwargs
    /\ IF ~BindsToSignature(kwargs)
       THEN /\ phase' = "failed"
            /\ UNCHANGED <<_options, constructed_options>>
       ELSE LET locs == Locals(kwargs)
            IN IF ProceedsToStore(validate(locs))
               THEN /\ phase' = (IF validate(locs) THEN "ok" ELSE "failed")
                    /\ _options' = StoredOptions(locs)
                    /\ constructed_options' = StoredOptions(locs)
               ELSE /\ phase' = "failed"
                    /\ UNCHANGED <<_options, constructed_options>>
    /\ UNCHANGED <<_batch_mode, request, solverCalls, solverArgs, solverOut,
                   outcome, evals, memo, repeat>>

\* Optimizer.set_batch_mode(mode)
set_batch_mode(mode) ==
    /\ phase = "ok"
    /\ _batch_mode # mode
    /\ _batch_mode' = mode
    /\ UNCHANGED <<phase, ctorArgs, _options, constructed_options, request,
                   solverCalls, solverArgs, solverOut, outcome, evals, memo,
                   repeat>>

\* L_BFGS_B.optimize(num_vars, objective_function, gradient_function,
\*                   variable_bounds, initial_point)
\* The solver is deterministic: given the arguments of the remembered run
\* it does what it did then.  repeat records that this call has the request
\* and batch mode of the remembered one.
optimize(num_vars, objective_function, gradient_function, variable_bounds, initial_point) ==
    /\ phase = "ok"
    /\ LET req == [num_vars |-> num_vars,
                   objective_function |-> objective_function,
                   gradient_function |-> gradient_function,
                   variable_bounds |-> variable_bounds,
                   initial_point |-> initial_point,
                   batch |-> _batch_mode]
           check == BaseOptimize(req)
           fprime == GradientForSolver(gradient_function, objective_function,
                                       _batch_mode, _options)
           args == [func |-> objective_function, x0 |-> initial_point,
                    bounds |-> variable_bounds, fprime |-> fprime,
                    approx_grad |-> ApproxGrad(fprime),
                    opts |-> SolverKwargs(_options)]
       IN /\ request' = req
          /\ repeat' = (memo.set /\ memo.request = req)
          /\ IF ~ReachesSolver(check)
             THEN /\ solverCalls' = 0
                  /\ solverArgs' = NoArgs
                  /\ solverOut' = NoOut
                  /\ outcome' = Raised(check)
                  /\ evals' = 0
                  /\ _options' = _options
             ELSE \E out \in SolverOutcomes(args) :
                  /\ (memo.set /\ memo.args = args) => out = memo.out
                  /\ solverCalls' = 1
                  /\ solverArgs' = args
                  /\ solverOut' = out
                  /\ outcome' = OptimizeOutcome(out)
                  /\ evals' = ObjectiveEvals(args, out)
                  /\ _options' = OptionsAfterOptimize(_options)
    /\ UNCHANGED <<phase, ctorArgs, constructed_options, _batch_mode, memo>>

\* Bookkeeping of the deterministic solver: the run just made becomes the
\* remembered one, together with the request and the result of its call.
Remember ==
    /\ phase = "ok"
    /\ ~memo.set
    /\ solverCalls = 1
    /\ memo' = [set |-> TRUE, args |-> solverArgs, out |-> solverOut,
                request |-> request, outcome |-> outcome]
    /\ UNCHANGED <<phase, ctorArgs, _options, constructed_options, _batch_mode,
                   request, solverCalls, solverArgs, solverOut, outcome, evals,
                   repeat>>

Kwargs ==
    UNION {[S -> CtorValues] :
             S \in {T \in SUBSET KeywordNames : Cardinality(T) <= MaxKwargs}}

Construct == phase = "new" /\ \E kwargs \in Kwargs : __init__(kwargs)

SetBatchMode == \E mode \in BOOLEAN : set_batch_mode(mode)

Optimize ==
    /\ phase = "ok"
    /\ \E n \in Dimensions, f \in Objectives, g \in Gradients,
          b \in VariableBounds, p \in InitialPoints :
          optimize(n, f, g, b, p)

Next == Construct \/ SetBatchMode \/ Optimize

Spec == Init /\ [][Next]_vars

\* The same program with the solver's determinism tracked across calls.
NextDet == Next \/ Remember

SpecDet == Init /\ [][NextDet]_vars

\* ------------------------------------------------------------ claims ----
\* The epsilon configured at construction: the keyword given, else 1e-08.
ConfiguredEpsilon ==
    IF "epsilon" \in DOMAIN ctorArgs THEN ctorArgs["epsilon"]
    ELSE [py |-> "float", num |-> 1, den |-> 100000000]

\* C1: an optimize call with no gradient function, batch mode off and a
\* well-formed request invokes the solver with approx_grad true and with no
\* fprime, not with a wrapped gradient function.
C1_NoGradientNoBatchUsesApproxFlag ==
    (outcome.kind # "none" /\ request.gradient_function = "None"
        /\ ~request.batch /\ BaseOptimize(request) = "ok")
    => /\ solverCalls = 1
       /\ solverArgs.approx_grad = TRUE
       /\ solverArgs.fprime.kind = "none"

C1_Witness ==
    /\ solverCalls = 1
    /\ request.gradient_function = "None"
    /\ ~request.batch
    /\ solverArgs.approx_grad

\* C2: an optimize call with no gradient function, batch mode on and a
\* well-formed request passes to the solver, as fprime, gradient_num_diff
\* wrapped with the request's objective and the epsilon configured at
\* construction, and approx_grad false.
C2_NoGradientBatchWrapsNumDiff ==
    (outcome.kind # "none" /\ request.gradient_function = "None"
        /\ request.batch /\ BaseOptimize(request) = "ok")
    => /\ solverCalls = 1
       /\ solverArgs.fprime.kind = "wrapped"
       /\ solverArgs.fprime.name = "gradient_num_diff"
       /\ solverArgs.fprime.obj = request.objective_function
       /\ solverArgs.fprime.eps = ConfiguredEpsilon
       /\ solverArgs.approx_grad = FALSE

C2_Witness ==
    /\ solverCalls = 1
    /\ request.gradient_function = "None"
    /\ request.batch
    /\ "epsilon" \in DOMAIN ctorArgs
    /\ solverArgs.fprime.eps = ctorArgs["epsilon"]

\* C3: a call whose request fails the base validation never invokes the
\* solver and raises the validation error; a call whose request passes
\* invokes the solver exactly once, and an error of the solver is raised to
\* the caller with no result value.
C3_ValidationBeforeSolverNoRetry ==
    outcome.kind # "none"
    => /\ BaseOptimize(request) # "ok"
          => /\ solverCalls = 0
             /\ outcome.kind = "raise"
             /\ outcome.err = BaseOptimize(request)
       /\ BaseOptimize(request) = "ok"
          => /\ solverCalls = 1
             /\ solverOut.kind = "raise"
                => /\ outcome.kind = "raise"
                   /\ outcome.err = solverOut.err
                   /\ outcome.value = <<>>

C3_Witness ==
    /\ outcome.kind = "raise"
    /\ BaseOptimize(request) # "ok"
    /\ solverCalls = 0

\* C4: a call that completes without error returns exactly three fields:
\* the solver's point, the solver's value and info['funcalls'], as the
\* solver returned them; and a call whose solver returned completes.
C4_ReturnsSolverTriple ==
    /\ outcome.kind = "return"
       => /\ solverOut.kind = "return"
          /\ Len(outcome.value) = 3
          /\ outcome.value[1] = solverOut.sol
          /\ outcome.value[2] = solverOut.opt
          /\ outcome.value[3] = solverOut.funcalls
    /\ solverOut.kind = "return" => outcome.kind = "return"

C4_Witness ==
    /\ outcome.kind = "return"
    /\ outcome.value[3] = 2
    /\ Len(outcome.value[1]) = 2

\* The documented default of an option.
DocumentedDefault(k) ==
    CASE k = "maxfun" -> [py |-> "int", num |-> 1000, den |-> 1]
      [] k = "maxiter" -> [py |-> "int", num |-> 15000, den |-> 1]
      [] k = "factr" -> [py |-> "int", num |-> 10, den |-> 1]
      [] k = "iprint" -> [py |-> "int", num |-> -1, den |-> 1]
      [] k = "epsilon" -> [py |-> "float", num |-> 1, den |-> 100000000]

\* C5: the keyword options of every solver invocation are exactly maxfun,
\* maxiter, factr, iprint and epsilon, each with the value given at
\* construction or, when omitted there, its documented default.
C5_SolverReceivesConstructionOptions ==
    solverCalls = 1
    => /\ DOMAIN solverArgs.opts = {"maxfun", "maxiter", "factr", "iprint", "epsilon"}
       /\ \A k \in {"maxfun", "maxiter", "factr", "iprint", "epsilon"} :
             solverArgs.opts[k] = IF k \in DOMAIN ctorArgs THEN ctorArgs[k]
                                  ELSE DocumentedDefault(k)

C5_Witness ==
    /\ solverCalls = 1
    /\ DOMAIN ctorArgs = {"maxiter"}
    /\ solverArgs.opts["maxiter"] = ctorArgs["maxiter"]
    /\ solverArgs.opts["maxfun"].num = 1000

\* A value has the type the schema declares for the option.
HasDeclaredType(k, v) ==
    IF k = "epsilon" THEN v.py \in {"int", "float"} ELSE v.py = "int"

\* C6: a construction given an undeclared option name, or an option value
\* that is not of the declared type, fails and leaves no option stored.
C6_BadConstructionFailsStoringNothing ==
    (phase # "new"
        /\ \E k \in DOMAIN ctorArgs :
              \/ k \notin {"maxfun", "maxiter", "factr", "iprint", "epsilon"}
              \/ ~HasDeclaredType(k, ctorArgs[k]))
    => /\ phase = "failed"
       /\ DOMAIN _options = {}

C6_Witness ==
    /\ phase = "failed"
    /\ DOMAIN ctorArgs = {"maxfun"}
    /\ ctorArgs["maxfun"].py = "str"
    /\ DOMAIN _options = {}

\* C7: a construction given only factr, a non-negative number (integer or
\* not), succeeds and stores that value as the configured factr.
C7_FactrAcceptsAnyNonNegativeNumber ==
    (phase # "new" /\ DOMAIN ctorArgs = {"factr"}
        /\ ctorArgs["factr"].py \in {"int", "float"}
        /\ ctorArgs["factr"].num >= 0)
    => /\ phase = "ok"
       /\ _options["factr"] = ctorArgs["factr"]

\* C8: after any sequence of optimize calls the option dictionary is the
\* one stored at construction, and a call with the request and batch mode
\* of the remembered call, made to a deterministic solver, has the result of
\* the remembered call.
C8_OptionsUnchangedAndCallsRepeatable ==
    /\ phase = "ok" => _options = constructed_options
    /\ repeat => outcome = memo.outcome

C8_Witness ==
    /\ repeat
    /\ outcome.kind = "return"
    /\ _options = constructed_options

\* C9: the third field of a returned result is the number of objective
\* evaluations performed during the call.
C9_CountIsAllObjectiveEvaluations ==
    outcome.kind = "return" => outcome.value[3] = evals

\* C10: in every solver invocation approx_grad is true exactly when fprime
\* is none, and a gradient function supplied by the caller is passed as
\* fprime unchanged with approx_grad false, batch mode on or off.
C10_FlagIffNoGradientAndSuppliedGradientKept ==
    solverCalls = 1
    => /\ solverArgs.approx_grad <=> solverArgs.fprime.kind = "none"
       /\ request.gradient_function # "None"
          => /\ solverArgs.fprime.kind = "user"
             /\ solverArgs.fprime.name = request.gradient_function
             /\ solverArgs.approx_grad = FALSE

C10_Witness ==
    /\ solverCalls = 1
    /\ request.gradient_function = "df"
    /\ request.batch
    /\ solverArgs.fprime.kind = "user"

====
